---------------------------- MODULE Spec2Model ----------------------------
(***************************************************************************)
(* Model of the stock-analysis core: indicator snapshot, rule-based signal *)
(* generation (technicalAnalysis.service.js), the external opinion adapter *)
(* (aiEnhancement service) and the merge in analyzeStock                   *)
(* (analysis.service.js).                                                  *)
(*                                                                         *)
(* Numbers.  Prices, moving averages and volumes are whole numbers; the    *)
(* MACD fields are in tenths.  A JavaScript product with a decimal factor  *)
(* is compared after scaling both sides: x < y * 1.02 is 100*x < 102*y.    *)
(* A value that is undefined (or null) in the program is Undefined, and    *)
(* every comparison with it is false, as a comparison with NaN is.         *)
(***************************************************************************)
EXTENDS Integers, Sequences, FiniteSets, TLC

\* ------------------------------------------------------------- constants

\* calculateIndicators: data.length < 50
MinBars == 50
\* config.analysis.sma.mediumPeriod and longPeriod
MediumPeriod == 50
LongPeriod == 200
\* config.analysis.signalThreshold
SignalThreshold == 30
\* The encoding of undefined / null (all defined readings are >= 0
\* except the MACD fields, which are never undefined for MinBars bars).
Undefined == -1

\* ------------------------------------------------------------- symbols

\* A symbol is its text split at the suffix the code tests with endsWith.
Sym(base, suffix) == [base |-> base, suffix |-> suffix]

\* config.crypto.supportedSymbols
SupportedSymbols ==
    { Sym(b, "-USD") : b \in {"BTC", "ETH", "USDT", "XRP", "BNB", "ADA",
                               "SOL", "DOT", "DOGE", "SHIB"} }

EndsWith(symbol, suffix) == symbol.suffix = suffix

\* isCryptocurrency without the suffix tests
IsCryptocurrencyListOnly(symbol) == symbol \in SupportedSymbols

IsCryptocurrency(symbol) ==
    \/ symbol \in SupportedSymbols
    \/ EndsWith(symbol, "-USD")
    \/ EndsWith(symbol, ".X")

\* config.analysis.rsi and config.crypto.analysis.rsi
RsiDefault == [period |-> 14, oversold |-> 30, overbought |-> 70]
RsiCrypto == [period |-> 14, oversold |-> 25, overbought |-> 75]

\* getAnalysisParams(symbol, 'rsi')
RsiParams(symbol) == IF IsCryptocurrency(symbol) THEN RsiCrypto ELSE RsiDefault

\* ------------------------------------------------------- bounded inputs

Symbols == {Sym("AAPL", ""), Sym("BTC", "-USD")}

LastPrices == {100}
Sma50Values == {98, 99, 100, 101, 102}
Sma200Values == {95, 97, 98, 100, 102}
RsiValues == {22, 27, 30, 73, 78}
MacdValues == { [MACD |-> 10, signal |-> 5, histogram |-> 5],
                [MACD |-> 5, signal |-> 10, histogram |-> -5],
                [MACD |-> 5, signal |-> 5, histogram |-> 0] }
BollingerValues == { [lower |-> 99, middle |-> 102, upper |-> 105],
                     [lower |-> 103, middle |-> 106, upper |-> 109],
                     [lower |-> 91, middle |-> 95, upper |-> 99] }
SupportValues == {90, 97}
ResistanceValues == {103, 110}
\* <<mean volume of the trailing 20 bars, volume of the last bar>>
VolumeValues == { [avg |-> 100, cur |-> 200], [avg |-> 100, cur |-> 150],
                  [avg |-> 100, cur |-> 50], [avg |-> 0, cur |-> 0],
                  [avg |-> 100, cur |-> Undefined] }

\* A bar series is modelled by its length and by the readings the
\* indicator library and the window computations give on it.  The readings
\* of a series too short to be analysed are never read.
NoReadings ==
    [lastPrice |-> 100, sma50 |-> 100, sma200 |-> 100, rsi |-> 50,
     macd |-> [MACD |-> 5, signal |-> 5, histogram |-> 0],
     bollingerBands |-> [lower |-> 99, middle |-> 102, upper |-> 105],
     supportLevel |-> 100, resistanceLevel |-> 100,
     volume |-> [avg |-> 0, cur |-> 0]]

Readings ==
    [lastPrice : LastPrices, sma50 : Sma50Values, sma200 : Sma200Values,
     rsi : RsiValues, macd : MacdValues, bollingerBands : BollingerValues,
     supportLevel : SupportValues, resistanceLevel : ResistanceValues,
     volume : VolumeValues]

\* null (no data at all), a short series, or an analysable series.  With
\* fewer than LongPeriod bars the 200-bar average has no value, so its
\* reading is fixed.
NoData == [present |-> FALSE, len |-> 0, r |-> NoReadings]
ShortSeries == { [present |-> TRUE, len |-> n, r |-> NoReadings] : n \in {0, MinBars - 1} }
MediumSeries ==
    { [present |-> TRUE, len |-> MinBars, r |-> r] :
        r \in {q \in Readings : q.sma200 = 95} }
LongSeries == { [present |-> TRUE, len |-> LongPeriod, r |-> r] : r \in Readings }
BarSeries == {NoData} \cup ShortSeries \cup MediumSeries \cup LongSeries

\* ------------------------------------------------- calculateIndicators

\* series[series.length - 1] of an indicator of the given period
LastOf(reading, len, period) == IF len >= period THEN reading ELSE Undefined

ErrorSnapshot == [error |-> "Insufficient data for analysis"]

\* calculateIndicators with the length test off by one
CalculateIndicatorsOffByOne(data, symbol) ==
    IF ~data.present \/ data.len < MinBars - 1
    THEN ErrorSnapshot
    ELSE [lastPrice |-> data.r.lastPrice,
          sma |-> [sma20 |-> data.r.bollingerBands.middle,
                   sma50 |-> LastOf(data.r.sma50, data.len, MediumPeriod),
                   sma200 |-> LastOf(data.r.sma200, data.len, LongPeriod)],
          rsi |-> data.r.rsi,
          macd |-> data.r.macd,
          bollingerBands |-> data.r.bollingerBands,
          supportLevel |-> data.r.supportLevel,
          resistanceLevel |-> data.r.resistanceLevel,
          avgVolume20 |-> data.r.volume.avg,
          currentVolume |-> data.r.volume.cur]

CalculateIndicators(data, symbol) ==
    IF ~data.present \/ data.len < MinBars
    THEN ErrorSnapshot
    ELSE [lastPrice |-> data.r.lastPrice,
          sma |-> [sma20 |-> data.r.bollingerBands.middle,
                   sma50 |-> LastOf(data.r.sma50, data.len, MediumPeriod),
                   sma200 |-> LastOf(data.r.sma200, data.len, LongPeriod)],
          rsi |-> data.r.rsi,
          macd |-> data.r.macd,
          bollingerBands |-> data.r.bollingerBands,
          supportLevel |-> data.r.supportLevel,
          resistanceLevel |-> data.r.resistanceLevel,
          avgVolume20 |-> data.r.volume.avg,
          currentVolume |-> data.r.volume.cur]

HasError(indicators) == "error" \in DOMAIN indicators

\* --------------------------------------------------------- generateSignal

\* The locals of generateSignal once they are initialised.
NoScores ==
    [buySignals |-> << >>, sellSignals |-> << >>,
     buyConfidence |-> 0, sellConfidence |-> 0]

\* condition matched: push the reason, add the weight
Buy(g, hit, reason, weight) ==
    IF hit
    THEN [g EXCEPT !.buySignals = Append(@, reason), !.buyConfidence = @ + weight]
    ELSE g

Sell(g, hit, reason, weight) ==
    IF hit
    THEN [g EXCEPT !.sellSignals = Append(@, reason), !.sellConfidence = @ + weight]
    ELSE g

\* a < b * (pct / 100) and a > b * (pct / 100) of JavaScript numbers, false
\* when either side is undefined
Less(a, b, pct) == a # Undefined /\ b # Undefined /\ 100 * a < pct * b
Greater(a, b, pct) == a # Undefined /\ b # Undefined /\ 100 * a > pct * b

\* FirstRules with the 5% tolerance of the support rule left out
FirstRulesNoTolerance(ind, symbol) ==
    LET rsiParams == RsiParams(symbol)
        g1 == Buy(NoScores,
                  /\ Greater(ind.lastPrice, ind.sma.sma50, 100)
                  /\ Less(ind.lastPrice, ind.sma.sma50, 102),
                  "Price crossed above 50-day SMA", 15)
        g2 == Sell(g1,
                   /\ Less(ind.lastPrice, ind.sma.sma50, 100)
                   /\ Greater(ind.lastPrice, ind.sma.sma50, 98),
                   "Price crossed below 50-day SMA", 15)
        g3 == Buy(g2, ind.rsi < rsiParams.oversold,
                  "RSI indicates oversold condition", 20)
        g4 == Sell(g3, ind.rsi > rsiParams.overbought,
                   "RSI indicates overbought condition", 20)
        g5 == Buy(g4, ind.macd.MACD > ind.macd.signal /\ ind.macd.histogram > 0,
                  "MACD crossed above signal line", 20)
        g6 == Sell(g5, ind.macd.MACD < ind.macd.signal /\ ind.macd.histogram < 0,
                   "MACD crossed below signal line", 20)
        g7 == Buy(g6, Less(ind.lastPrice, ind.supportLevel, 100),
                  "Price near support level", 15)
    IN  Sell(g7, Greater(ind.lastPrice, ind.resistanceLevel, 95),
             "Price near resistance level", 15)

\* The SMA50, RSI, MACD and support/resistance rules.
FirstRules(ind, symbol) ==
    LET rsiParams == RsiParams(symbol)
        g1 == Buy(NoScores,
                  /\ Greater(ind.lastPrice, ind.sma.sma50, 100)
                  /\ Less(ind.lastPrice, ind.sma.sma50, 102),
                  "Price crossed above 50-day SMA", 15)
        g2 == Sell(g1,
                   /\ Less(ind.lastPrice, ind.sma.sma50, 100)
                   /\ Greater(ind.lastPrice, ind.sma.sma50, 98),
                   "Price crossed below 50-day SMA", 15)
        g3 == Buy(g2, ind.rsi < rsiParams.oversold,
                  "RSI indicates oversold condition", 20)
        g4 == Sell(g3, ind.rsi > rsiParams.overbought,
                   "RSI indicates overbought condition", 20)
        g5 == Buy(g4, ind.macd.MACD > ind.macd.signal /\ ind.macd.histogram > 0,
                  "MACD crossed above signal line", 20)
        g6 == Sell(g5, ind.macd.MACD < ind.macd.signal /\ ind.macd.histogram < 0,
                   "MACD crossed below signal line", 20)
        g7 == Buy(g6, Less(ind.lastPrice, ind.supportLevel, 105),
                  "Price near support level", 15)
    IN  Sell(g7, Greater(ind.lastPrice, ind.resistanceLevel, 95),
             "Price near resistance level", 15)

Max(a, b) == IF a >= b THEN a ELSE b

\* typeof x === 'number'
IsNumber(x) == x # Undefined

\* VolumeAdjust with the tie branches taken for two zero scores too
VolumeAdjustTieAtZero(g, ind) ==
    IF ~(IsNumber(ind.currentVolume) /\ IsNumber(ind.avgVolume20) /\ ind.avgVolume20 > 0)
    THEN g
    ELSE IF Greater(ind.currentVolume, ind.avgVolume20, 150)
    THEN IF g.buyConfidence > g.sellConfidence
         THEN [g EXCEPT !.buyConfidence = @ + 10,
                        !.buySignals = Append(@, "High volume supports bullish signal")]
         ELSE IF g.sellConfidence > g.buyConfidence
         THEN [g EXCEPT !.sellConfidence = @ + 10,
                        !.sellSignals = Append(@, "High volume supports bearish signal")]
         ELSE IF g.buyConfidence = g.sellConfidence
         THEN [g EXCEPT !.buyConfidence = @ + 5, !.sellConfidence = @ + 5,
                        !.buySignals = Append(@, "High volume present, but signals are mixed"),
                        !.sellSignals = Append(@, "High volume present, but signals are mixed")]
         ELSE g
    ELSE IF Less(ind.currentVolume, ind.avgVolume20, 70)
    THEN IF g.buyConfidence > g.sellConfidence
         THEN [g EXCEPT !.buyConfidence = Max(0, @ - 5),
                        !.buySignals = Append(@, "Low volume reduces bullish confidence")]
         ELSE IF g.sellConfidence > g.buyConfidence
         THEN [g EXCEPT !.sellConfidence = Max(0, @ - 5),
                        !.sellSignals = Append(@, "Low volume reduces bearish confidence")]
         ELSE IF g.buyConfidence = g.sellConfidence
         THEN [g EXCEPT !.buyConfidence = Max(0, @ - 2), !.sellConfidence = Max(0, @ - 2),
                        !.buySignals = Append(@, "Low volume present, confidence reduced"),
                        !.sellSignals = Append(@, "Low volume present, confidence reduced")]
         ELSE g
    ELSE g

\* The volume-based confidence adjustment.
VolumeAdjust(g, ind) ==
    IF ~(IsNumber(ind.currentVolume) /\ IsNumber(ind.avgVolume20) /\ ind.avgVolume20 > 0)
    THEN g
    ELSE IF Greater(ind.currentVolume, ind.avgVolume20, 150)
    THEN IF g.buyConfidence > g.sellConfidence
         THEN [g EXCEPT !.buyConfidence = @ + 10,
                        !.buySignals = Append(@, "High volume supports bullish signal")]
         ELSE IF g.sellConfidence > g.buyConfidence
         THEN [g EXCEPT !.sellConfidence = @ + 10,
                        !.sellSignals = Append(@, "High volume supports bearish signal")]
         ELSE IF g.buyConfidence = g.sellConfidence /\ g.buyConfidence > 0
         THEN [g EXCEPT !.buyConfidence = @ + 5, !.sellConfidence = @ + 5,
                        !.buySignals = Append(@, "High volume present, but signals are mixed"),
                        !.sellSignals = Append(@, "High volume present, but signals are mixed")]
         ELSE g
    ELSE IF Less(ind.currentVolume, ind.avgVolume20, 70)
    THEN IF g.buyConfidence > g.sellConfidence
         THEN [g EXCEPT !.buyConfidence = Max(0, @ - 5),
                        !.buySignals = Append(@, "Low volume reduces bullish confidence")]
         ELSE IF g.sellConfidence > g.buyConfidence
         THEN [g EXCEPT !.sellConfidence = Max(0, @ - 5),
                        !.sellSignals = Append(@, "Low volume reduces bearish confidence")]
         ELSE IF g.buyConfidence = g.sellConfidence /\ g.buyConfidence > 0
         THEN [g EXCEPT !.buyConfidence = Max(0, @ - 2), !.sellConfidence = Max(0, @ - 2),
                        !.buySignals = Append(@, "Low volume present, confidence reduced"),
                        !.sellSignals = Append(@, "Low volume present, confidence reduced")]
         ELSE g
    ELSE g

\* LateRules with the price compared to the middle band
LateRulesMiddleBand(g, ind) ==
    LET g1 == Buy(g, Less(ind.lastPrice, ind.bollingerBands.middle, 100),
                  "Price below lower Bollinger Band", 15)
        g2 == Sell(g1, Greater(ind.lastPrice, ind.bollingerBands.upper, 100),
                   "Price above upper Bollinger Band", 15)
        g3 == Buy(g2,
                  /\ Greater(ind.sma.sma50, ind.sma.sma200, 100)
                  /\ Less(ind.sma.sma50, ind.sma.sma200, 102),
                  "Golden Cross detected", 25)
    IN  Sell(g3,
             /\ Less(ind.sma.sma50, ind.sma.sma200, 100)
             /\ Greater(ind.sma.sma50, ind.sma.sma200, 98),
             "Death Cross detected", 25)

\* The Bollinger Band and Golden / Death Cross rules.
LateRules(g, ind) ==
    LET g1 == Buy(g, Less(ind.lastPrice, ind.bollingerBands.lower, 100),
                  "Price below lower Bollinger Band", 15)
        g2 == Sell(g1, Greater(ind.lastPrice, ind.bollingerBands.upper, 100),
                   "Price above upper Bollinger Band", 15)
        g3 == Buy(g2,
                  /\ Greater(ind.sma.sma50, ind.sma.sma200, 100)
                  /\ Less(ind.sma.sma50, ind.sma.sma200, 102),
                  "Golden Cross detected", 25)
    IN  Sell(g3,
             /\ Less(ind.sma.sma50, ind.sma.sma200, 100)
             /\ Greater(ind.sma.sma50, ind.sma.sma200, 98),
             "Death Cross detected", 25)

\* Decide with the buy side winning ties
DecideNonStrict(g) ==
    IF g.buyConfidence >= g.sellConfidence /\ g.buyConfidence >= SignalThreshold
    THEN [signal |-> "buy", confidence |-> g.buyConfidence, reasons |-> g.buySignals]
    ELSE IF g.sellConfidence > g.buyConfidence /\ g.sellConfidence >= SignalThreshold
    THEN [signal |-> "sell", confidence |-> g.sellConfidence, reasons |-> g.sellSignals]
    ELSE [signal |-> "hold",
          confidence |-> 100 - Max(g.buyConfidence, g.sellConfidence),
          reasons |-> <<"No strong buy or sell signals detected">>]

\* Determine final signal based on confidence scores.
Decide(g) ==
    IF g.buyConfidence > g.sellConfidence /\ g.buyConfidence >= SignalThreshold
    THEN [signal |-> "buy", confidence |-> g.buyConfidence, reasons |-> g.buySignals]
    ELSE IF g.sellConfidence > g.buyConfidence /\ g.sellConfidence >= SignalThreshold
    THEN [signal |-> "sell", confidence |-> g.sellConfidence, reasons |-> g.sellSignals]
    ELSE [signal |-> "hold",
          confidence |-> 100 - Max(g.buyConfidence, g.sellConfidence),
          reasons |-> <<"No strong buy or sell signals detected">>]

InsufficientSignal ==
    [signal |-> "hold", confidence |-> 0, reasons |-> <<"Insufficient data">>]

GenerateSignal(ind, symbol) ==
    IF HasError(ind)
    THEN InsufficientSignal
    ELSE Decide(LateRules(VolumeAdjust(FirstRules(ind, symbol), ind), ind))

\* ------------------------------------------------------ getEnhancedSignal

\* PROVIDERS / PROVIDER_HANDLERS
Providers == {"openai", "claude", "deepseek"}

\* What a provider handler can hand back for one call: it throws (network
\* error, empty content, JSON that does not parse), or it returns the
\* parsed JSON.  A JSON field is given by its value and by whether it has
\* the type the validation asks for; signal "" is a missing or empty one.
Throws == [throws |-> TRUE, signal |-> "", signalIsString |-> TRUE,
           confidence |-> 0, confidenceIsNumber |-> FALSE,
           reasons |-> << >>, reasonsIsArray |-> FALSE]

Json(signal, confidence, reasons) ==
    [throws |-> FALSE, signal |-> signal, signalIsString |-> TRUE,
     confidence |-> confidence, confidenceIsNumber |-> TRUE,
     reasons |-> reasons, reasonsIsArray |-> TRUE]

AiSignalTexts == {"buy", "sell", "hold", "BUY", "strong buy", ""}
AiConfidences == {-5, 0, 55, 80, 150}
AiReasonLists == { << >>, <<"AI sees momentum">>,
                   <<"RSI indicates oversold condition", "AI sees momentum">> }

HandlerOutcomes ==
    {Throws}
    \cup { Json(sig, c, r) : sig \in AiSignalTexts, c \in AiConfidences, r \in AiReasonLists }
    \cup { [Json("buy", 80, <<"AI sees momentum">>) EXCEPT !.signalIsString = FALSE],
           [Json("buy", 0, <<"AI sees momentum">>) EXCEPT !.confidenceIsNumber = FALSE],
           [Json("buy", 80, << >>) EXCEPT !.reasonsIsArray = FALSE] }

\* String.prototype.toLowerCase on the signal texts of the model
ToLowerCase(text) == IF text = "BUY" THEN "buy" ELSE text

\* { ...technicalSignalResult, source: "technical", error }
Fallback(technical, error) ==
    [signal |-> technical.signal, confidence |-> technical.confidence,
     reasons |-> technical.reasons, source |-> "technical", error |-> error]

\* callOpenAI / callClaude / callDeepSeek: without a client or key the
\* handler returns the technical opinion, otherwise what the provider gave
Handler(provider, apiKeys, technical, outcome) ==
    IF provider \notin apiKeys
    THEN Json(technical.signal, technical.confidence, technical.reasons)
    ELSE outcome

\* getEnhancedSignal that asks the provider whatever the switch says
GetEnhancedSignalAlwaysAsks(enabled, provider, apiKeys, technical, outcome) ==
    IF provider \notin Providers
    THEN Fallback(technical, "Unsupported/unconfigured AI provider")
    ELSE LET json == Handler(provider, apiKeys, technical, outcome)
         IN  IF json.throws
             THEN Fallback(technical, "provider error")
             ELSE IF /\ json.signal # ""
                     /\ json.confidenceIsNumber
                     /\ json.reasonsIsArray
             THEN IF ~json.signalIsString
                  THEN Fallback(technical, "toLowerCase is not a function")
                  ELSE [signal |-> ToLowerCase(json.signal),
                        confidence |-> json.confidence,
                        reasons |-> json.reasons,
                        source |-> provider, error |-> ""]
             ELSE Fallback(technical, "AI response has invalid structure")

GetEnhancedSignal(enabled, provider, apiKeys, technical, outcome) ==
    IF ~enabled
    THEN Fallback(technical, "")
    ELSE IF provider \notin Providers
    THEN Fallback(technical, "Unsupported/unconfigured AI provider")
    ELSE LET json == Handler(provider, apiKeys, technical, outcome)
         IN  IF json.throws
             THEN Fallback(technical, "provider error")
             ELSE IF /\ json.signal # ""
                     /\ json.confidenceIsNumber
                     /\ json.reasonsIsArray
             THEN IF ~json.signalIsString
                  THEN Fallback(technical, "toLowerCase is not a function")
                  ELSE [signal |-> ToLowerCase(json.signal),
                        confidence |-> json.confidence,
                        reasons |-> json.reasons,
                        source |-> provider, error |-> ""]
             ELSE Fallback(technical, "AI response has invalid structure")

\* ------------------------------------------------------ the merge logic

\* [...new Set(list)]: the first occurrence of each string, in order
RECURSIVE Dedup(_)
Dedup(list) ==
    IF list = << >>
    THEN << >>
    ELSE LET front == Dedup(SubSeq(list, 1, Len(list) - 1))
             last == list[Len(list)]
         IN  IF \E i \in 1..Len(front) : front[i] = last
             THEN front
             ELSE Append(front, last)

\* Math.round(sum / 2) of a whole-number sum: halves round up
RoundHalf(sum) == (sum + 1) \div 2

\* The four branches of the merge, named so that variants can share them
Agree(ai, technical) ==
    [signal |-> ai.signal,
     confidence |-> RoundHalf(ai.confidence + technical.confidence),
     reasons |-> <<"Both AI and Technical agree">>
                 \o Dedup(ai.reasons \o technical.reasons),
     source |-> "ai+technical"]

\* AiOverrides that drops the leading note
AiOverridesNoNote(ai, technical) ==
    [signal |-> ai.signal,
     confidence |-> ai.confidence,
     reasons |-> ai.reasons,
     source |-> "ai"]

AiOverrides(ai, technical) ==
    [signal |-> ai.signal,
     confidence |-> ai.confidence,
     reasons |-> <<"AI overrides Technical">> \o ai.reasons,
     source |-> "ai"]

TechnicalOverrides(ai, technical) ==
    [signal |-> technical.signal,
     confidence |-> technical.confidence,
     reasons |-> <<"Technical overrides AI">> \o technical.reasons,
     source |-> "technical"]

Conflict(ai, technical) ==
    [signal |-> "hold",
     confidence |-> Max(ai.confidence, technical.confidence),
     reasons |-> <<"AI and Technical disagree with similar confidence; defaulting to hold.">>,
     source |-> "conflict"]

\* merge that concatenates the two reason lists without the Set
MergeNoSet(ai, technical) ==
    IF ai.signal = technical.signal
    THEN [Agree(ai, technical) EXCEPT
            !.reasons = <<"Both AI and Technical agree">>
                        \o ai.reasons \o technical.reasons]
    ELSE IF ai.confidence > technical.confidence THEN AiOverrides(ai, technical)
    ELSE IF technical.confidence > ai.confidence THEN TechnicalOverrides(ai, technical)
    ELSE Conflict(ai, technical)

\* merge whose override keeps the winner's signal but adds both reason lists
MergeBothReasons(ai, technical) ==
    IF ai.signal = technical.signal THEN Agree(ai, technical)
    ELSE IF ai.confidence > technical.confidence
    THEN [AiOverrides(ai, technical) EXCEPT
            !.reasons = <<"AI overrides Technical">> \o ai.reasons \o technical.reasons]
    ELSE IF technical.confidence > ai.confidence THEN TechnicalOverrides(ai, technical)
    ELSE Conflict(ai, technical)

\* merge that lets the AI opinion win a tie of confidences
MergeAiWinsTie(ai, technical) ==
    IF ai.signal = technical.signal THEN Agree(ai, technical)
    ELSE IF ai.confidence >= technical.confidence THEN AiOverrides(ai, technical)
    ELSE IF technical.confidence > ai.confidence THEN TechnicalOverrides(ai, technical)
    ELSE Conflict(ai, technical)

\* merge whose agreement keeps the AI confidence instead of the average
MergeAgreeKeepsAi(ai, technical) ==
    IF ai.signal = technical.signal
    THEN [Agree(ai, technical) EXCEPT !.confidence = ai.confidence]
    ELSE IF ai.confidence > technical.confidence THEN AiOverrides(ai, technical)
    ELSE IF technical.confidence > ai.confidence THEN TechnicalOverrides(ai, technical)
    ELSE Conflict(ai, technical)

\* The leading notes carry the signals and confidences in their text; the
\* model keeps the fixed part.
Merge(ai, technical) ==
    IF ai.signal = technical.signal THEN Agree(ai, technical)
    ELSE IF ai.confidence > technical.confidence THEN AiOverrides(ai, technical)
    ELSE IF technical.confidence > ai.confidence THEN TechnicalOverrides(ai, technical)
    ELSE Conflict(ai, technical)

\* ------------------------------------------------------------------ state

VARIABLES
    symbol,          \* the symbol under analysis
    data,            \* the bar series handed to calculateIndicators
    indicators,      \* the snapshot calculateIndicators returned
    gpc,             \* generateSignal: the block that runs next
    buySignals,      \* generateSignal's locals
    sellSignals,
    buyConfidence,
    sellConfidence,
    technicalSignal, \* what generateSignal returned
    config,          \* config.aiEnhancement: enabled, defaultProvider, keys
    pc,              \* analyzeStock: the await it is suspended at
    aiSignal,        \* what getEnhancedSignal returned
    merged,          \* mergedSignal, mergedConfidence, mergedReasons, mergedSource
    result,          \* what analyzeStock returned
    signalsFile,     \* the signals file: symbol -> record
    runs,            \* per symbol, the records built so far (the clock of its dates)
    log,             \* per symbol, the history entries of its completed runs
    last,            \* what the environment did in the latest run
    faults,          \* the runs so far in which a read or write of the store failed
    watchlist,       \* analyzeAllWatchlist: the loaded list
    idx,             \* analyzeAllWatchlist: symbols of the list taken so far
    attempts,        \* analyzeAllWatchlist: the symbols analyzeStock was called with
    results,         \* analyzeAllWatchlist: the accumulated results
    batch,           \* analyzeAllWatchlist: where the command stands
    fetched,         \* the provider symbol formatSymbol made of the input
    params,          \* the parameter sets getAnalysisParams returned in a run
    watchlistFile,   \* the saved watchlist
    analysed,        \* the symbols an analysis of the menu has succeeded for
    jobs,            \* the cron tasks registered in this session
    notifier,        \* whether the e-mail settings are complete
    fired,           \* the task callbacks the current tick has run
    sent,            \* the notifications of the current tick
    procs            \* the two interleaved runs: position and local store

signalVars == <<gpc, buySignals, sellSignals, buyConfidence, sellConfidence>>
runVars == <<config, pc, aiSignal, merged, result>>
storeVars == <<signalsFile, runs, log, last, faults>>
batchVars == <<watchlist, idx, attempts, results, batch>>
sessionVars == <<fetched, params, watchlistFile, analysed, jobs, notifier,
                 fired, sent, procs>>

vars == <<symbol, data, indicators, gpc, buySignals, sellSignals,
          buyConfidence, sellConfidence, technicalSignal,
          config, pc, aiSignal, merged, result,
          signalsFile, runs, log, last, faults,
          watchlist, idx, attempts, results, batch,
          fetched, params, watchlistFile, analysed, jobs, notifier,
          fired, sent, procs>>

None == [signal |-> "", confidence |-> 0, reasons |-> << >>]
NoAiSignal == [signal |-> "", confidence |-> 0, reasons |-> << >>,
               source |-> "", error |-> ""]
NoMerged == [signal |-> "", confidence |-> 0, reasons |-> << >>, source |-> ""]
NullResult == [null |-> TRUE]
IsNull(r) == "null" \in DOMAIN r

AiOff == [enabled |-> FALSE, defaultProvider |-> "openai", apiKeys |-> {}]

\* {}: what loadSignals gives when the file does not exist yet
EmptyStore == << >>
NoRun == [fetch |-> "", threw |-> FALSE, loadOk |-> TRUE, saveOk |-> TRUE]

\* No signals file yet, no command running
StoreInit ==
    /\ signalsFile = EmptyStore
    /\ runs = [s \in Symbols |-> 0]
    /\ log = [s \in Symbols |-> << >>]
    /\ last = NoRun
    /\ faults = 0

BatchInit ==
    /\ watchlist = << >>
    /\ idx = 0
    /\ attempts = << >>
    /\ results = << >>
    /\ batch = "menu"

\* The two runs that can be suspended at the same time
Runners == {"cron", "menu"}
NoParams == [rsi |-> << >>, bollingerBands |-> << >>, score |-> << >>]
IdleRun == [pc |-> "idle", symbol |-> [base |-> "", suffix |-> ""],
            allSignals |-> EmptyStore]

\* Nothing typed, saved, registered or sent yet
SessionInit ==
    /\ fetched = [base |-> "", suffix |-> ""]
    /\ params = NoParams
    /\ watchlistFile = << >>
    /\ analysed = {}
    /\ jobs = 0
    /\ notifier = FALSE
    /\ fired = 0
    /\ sent = << >>
    /\ procs = [p \in Runners |-> IdleRun]

Locals ==
    [buySignals |-> buySignals, sellSignals |-> sellSignals,
     buyConfidence |-> buyConfidence, sellConfidence |-> sellConfidence]

SetLocals(g) ==
    /\ buySignals' = g.buySignals
    /\ sellSignals' = g.sellSignals
    /\ buyConfidence' = g.buyConfidence
    /\ sellConfidence' = g.sellConfidence

\* ------------------------------------- the signal generator, block by block

InitSignal ==
    /\ symbol \in Symbols
    /\ data \in BarSeries
    /\ indicators = ErrorSnapshot
    /\ gpc = "calc"
    /\ buySignals = << >>
    /\ sellSignals = << >>
    /\ buyConfidence = 0
    /\ sellConfidence = 0
    /\ technicalSignal = None
    /\ config = AiOff
    /\ pc = "idle"
    /\ aiSignal = NoAiSignal
    /\ merged = NoMerged
    /\ result = NullResult
    /\ StoreInit
    /\ BatchInit
    /\ SessionInit

\* calculateIndicators(data, symbol)
Calculate ==
    /\ gpc = "calc"
    /\ indicators' = CalculateIndicators(data, symbol)
    /\ gpc' = "rules"
    /\ UNCHANGED <<symbol, data, buySignals, sellSignals, buyConfidence,
                   sellConfidence, technicalSignal>>
    /\ UNCHANGED <<runVars, storeVars, batchVars, sessionVars>>

\* generateSignal on an error snapshot returns at once
ReturnInsufficient ==
    /\ gpc = "rules"
    /\ HasError(indicators)
    /\ technicalSignal' = InsufficientSignal
    /\ gpc' = "done"
    /\ UNCHANGED <<symbol, data, indicators, buySignals, sellSignals,
                   buyConfidence, sellConfidence>>
    /\ UNCHANGED <<runVars, storeVars, batchVars, sessionVars>>

ScoreFirstRules ==
    /\ gpc = "rules"
    /\ ~HasError(indicators)
    /\ SetLocals(FirstRules(indicators, symbol))
    /\ gpc' = "volume"
    /\ UNCHANGED <<symbol, data, indicators, technicalSignal>>
    /\ UNCHANGED <<runVars, storeVars, batchVars, sessionVars>>

AdjustForVolume ==
    /\ gpc = "volume"
    /\ SetLocals(VolumeAdjust(Locals, indicators))
    /\ gpc' = "late"
    /\ UNCHANGED <<symbol, data, indicators, technicalSignal>>
    /\ UNCHANGED <<runVars, storeVars, batchVars, sessionVars>>

ScoreLateRules ==
    /\ gpc = "late"
    /\ SetLocals(LateRules(Locals, indicators))
    /\ gpc' = "decide"
    /\ UNCHANGED <<symbol, data, indicators, technicalSignal>>
    /\ UNCHANGED <<runVars, storeVars, batchVars, sessionVars>>

DecideSignal ==
    /\ gpc = "decide"
    /\ technicalSignal' = Decide(Locals)
    /\ gpc' = "done"
    /\ UNCHANGED <<symbol, data, indicators, buySignals, sellSignals,
                   buyConfidence, sellConfidence>>
    /\ UNCHANGED <<runVars, storeVars, batchVars, sessionVars>>

NextSignal ==
    \/ Calculate
    \/ ReturnInsufficient
    \/ ScoreFirstRules
    \/ AdjustForVolume
    \/ ScoreLateRules
    \/ DecideSignal

SpecSignal == InitSignal /\ [][NextSignal]_vars

\* ------------------------------------------------ analyzeStock, await by await

\* The series a fetch can return: fetchStockData gives null for an empty
\* answer, so a fetched series has at least one bar.
RunReadings ==
    [lastPrice : {100}, sma50 : {98, 99}, sma200 : {95, 98},
     rsi : {22, 78},
     macd : { [MACD |-> 10, signal |-> 5, histogram |-> 5],
              [MACD |-> 5, signal |-> 10, histogram |-> -5] },
     bollingerBands : { [lower |-> 99, middle |-> 102, upper |-> 105],
                        [lower |-> 103, middle |-> 106, upper |-> 109] },
     supportLevel : {97}, resistanceLevel : {110},
     volume : { [avg |-> 100, cur |-> 200], [avg |-> 100, cur |-> Undefined] }]

FetchedSeries ==
    { d \in BarSeries : d.present /\ d.len > 0 /\ (d.len >= MinBars => d.r \in RunReadings) }

Configs ==
    { AiOff,
      [enabled |-> TRUE, defaultProvider |-> "openai", apiKeys |-> {"openai"}],
      [enabled |-> TRUE, defaultProvider |-> "claude", apiKeys |-> {"openai"}],
      [enabled |-> TRUE, defaultProvider |-> "gemini", apiKeys |-> {"openai"}] }

Init ==
    /\ symbol \in Symbols
    /\ data = NoData
    /\ indicators = ErrorSnapshot
    /\ gpc = "done"
    /\ buySignals = << >>
    /\ sellSignals = << >>
    /\ buyConfidence = 0
    /\ sellConfidence = 0
    /\ technicalSignal = None
    /\ config \in Configs
    /\ pc = "idle"
    /\ aiSignal = NoAiSignal
    /\ merged = NoMerged
    /\ result = NullResult
    /\ StoreInit
    /\ BatchInit
    /\ SessionInit

\* analyzeStock(symbol) is called and awaits the quote and the price bars
StartAnalysis ==
    /\ pc \in {"idle", "returned", "menu"}
    /\ \E s \in Symbols : symbol' = s
    /\ pc' = "fetch"
    /\ data' = NoData
    /\ indicators' = ErrorSnapshot
    /\ technicalSignal' = None
    /\ aiSignal' = NoAiSignal
    /\ merged' = NoMerged
    /\ result' = NullResult
    /\ UNCHANGED <<config, signalVars>>
    /\ UNCHANGED <<storeVars, batchVars, sessionVars>>

\* fetchStockData returned null: analyzeStock returns null
FetchFailed ==
    /\ pc = "fetch"
    /\ result' = NullResult
    /\ pc' = "returned"
    /\ UNCHANGED <<symbol, data, indicators, technicalSignal, config, aiSignal,
                   merged, signalVars>>
    /\ UNCHANGED <<storeVars, batchVars, sessionVars>>

\* the bars arrive: indicators, technical signal, then the call of
\* getEnhancedSignal
FetchDone ==
    /\ pc = "fetch"
    /\ \E d \in FetchedSeries :
          /\ data' = d
          /\ indicators' = CalculateIndicators(d, symbol)
          /\ technicalSignal' = GenerateSignal(CalculateIndicators(d, symbol), symbol)
    /\ pc' = "enhance"
    /\ UNCHANGED <<symbol, config, aiSignal, merged, result, signalVars>>
    /\ UNCHANGED <<storeVars, batchVars, sessionVars>>

\* getEnhancedSignal resolves; the merge runs up to the await of loadSignals
Enhance ==
    /\ pc = "enhance"
    /\ \E outcome \in HandlerOutcomes :
          LET ai == GetEnhancedSignal(config.enabled, config.defaultProvider,
                                      config.apiKeys, technicalSignal, outcome)
          IN  /\ aiSignal' = ai
              /\ merged' = Merge(ai, technicalSignal)
    /\ pc' = "save"
    /\ UNCHANGED <<symbol, data, indicators, technicalSignal, config, result,
                   signalVars>>
    /\ UNCHANGED <<storeVars, batchVars, sessionVars>>

\* the record is saved and analyzeStock returns its result
Return ==
    /\ pc = "save"
    /\ result' = [symbol |-> symbol,
                  signalResult |-> [signal |-> merged.signal,
                                    confidence |-> merged.confidence,
                                    reasons |-> merged.reasons,
                                    source |-> merged.source,
                                    ai |-> aiSignal,
                                    technical |-> technicalSignal],
                  indicators |-> indicators]
    /\ pc' = "returned"
    /\ UNCHANGED <<symbol, data, indicators, technicalSignal, config, aiSignal,
                   merged, signalVars>>
    /\ UNCHANGED <<storeVars, batchVars, sessionVars>>

\* displayAnalysisResult(result): the header and the signal are printed, then
\* rsi, the two levels and the three moving averages are formatted with
\* toFixed without a test; macd and the bands are tested first.  toFixed of
\* undefined is a TypeError.
DisplayThrows(r) ==
    \/ HasError(r.indicators)
    \/ r.indicators.rsi = Undefined
    \/ r.indicators.supportLevel = Undefined
    \/ r.indicators.resistanceLevel = Undefined
    \/ r.indicators.sma.sma20 = Undefined
    \/ r.indicators.sma.sma50 = Undefined
    \/ r.indicators.sma.sma200 = Undefined

\* analyzeStockFromInput after analyzeStock has returned: the result is
\* displayed; an exception leaves showMainMenu and main exits the process,
\* otherwise the menu loop prompts again.
Display ==
    /\ pc = "returned"
    /\ pc' = IF ~IsNull(result) /\ DisplayThrows(result) THEN "crashed" ELSE "menu"
    /\ UNCHANGED <<symbol, data, indicators, technicalSignal, config, aiSignal,
                   merged, result, signalVars>>
    /\ UNCHANGED <<storeVars, batchVars, sessionVars>>

Next ==
    \/ StartAnalysis
    \/ FetchFailed
    \/ FetchDone
    \/ Enhance
    \/ Return
    \/ Display

Spec == Init /\ [][Next]_vars

\* ------------------------------------------------ the signals store

\* .slice(-10)
HistoryCap == 10
\* records built in one behaviour
MaxRuns == 11
\* runs of one behaviour in which the store fails
MaxFaults == 2

\* list.slice(-n)
LastN(list, n) ==
    IF Len(list) <= n THEN list ELSE SubSeq(list, Len(list) - n + 1, Len(list))

\* allSignals[symbol]?.historicalSignals || []
History(store, s) ==
    IF s \in DOMAIN store THEN store[s].historicalSignals ELSE << >>

\* allSignals[symbol] = record
Put(store, s, record) ==
    [x \in (DOMAIN store) \cup {s} |-> IF x = s THEN record ELSE store[x]]

\* loadSignals: the parsed file, or {} when reading or parsing it fails
LoadSignals(ok) == IF ok THEN signalsFile ELSE EmptyStore

\* saveSignals: the file is replaced, or the error is logged and swallowed
SaveSignals(store, ok) == IF ok THEN store ELSE signalsFile

\* The history entry of a run.  new Date() is modelled by the ordinal of the
\* record among the symbol's records: dates are compared within one history.
Entry(m, date) == [signal |-> m.signal, date |-> date]

\* The record written for the symbol
Record(store, s, m, date) ==
    [lastSignal |-> m.signal,
     lastSignalSource |-> m.source,
     lastSignalDate |-> date,
     historicalSignals |-> LastN(Append(History(store, s), Entry(m, date)), HistoryCap)]

RECURSIVE Total(_, _)
Total(count, S) ==
    IF S = {} THEN 0
    ELSE LET s == CHOOSE x \in S : TRUE IN count[s] + Total(count, S \ {s})

\* The one series of the store runs: scored buy for an equity (RSI 27 < 30,
\* MACD up) and hold for a crypto symbol (RSI 27 >= 25)
StoreSeries ==
    { [present |-> TRUE, len |-> LongPeriod,
       r |-> [lastPrice |-> 100, sma50 |-> 98, sma200 |-> 95, rsi |-> 27,
              macd |-> [MACD |-> 10, signal |-> 5, histogram |-> 5],
              bollingerBands |-> [lower |-> 99, middle |-> 102, upper |-> 105],
              supportLevel |-> 90, resistanceLevel |-> 110,
              volume |-> [avg |-> 100, cur |-> Undefined]]] }

ResultOf(s, ind, tech, ai, m) ==
    [symbol |-> s,
     signalResult |-> [signal |-> m.signal, confidence |-> m.confidence,
                       reasons |-> m.reasons, source |-> m.source,
                       ai |-> ai, technical |-> tech],
     indicators |-> ind]

\* analyzeStock(s) when a call of the pipeline throws on the fetched bars:
\* the catch logs the error and returns null
RunThrows(s) ==
    /\ symbol' = s
    /\ \E d \in StoreSeries : data' = d
    /\ last' = [NoRun EXCEPT !.fetch = "bars", !.threw = TRUE]
    /\ indicators' = ErrorSnapshot
    /\ technicalSignal' = None
    /\ aiSignal' = NoAiSignal
    /\ merged' = NoMerged
    /\ result' = NullResult
    /\ pc' = "returned"
    /\ UNCHANGED <<signalsFile, runs, log, faults, config, signalVars>>

\* analyzeStock up to the merge: indicators, technical signal, AI opinion,
\* fused signal, all in memory
Analysed(s, outcomes) ==
    /\ symbol' = s
    /\ \E d \in StoreSeries : data' = d
    /\ indicators' = CalculateIndicators(data', s)
    /\ technicalSignal' = GenerateSignal(indicators', s)
    /\ \E outcome \in outcomes :
          aiSignal' = GetEnhancedSignal(config.enabled, config.defaultProvider,
                                        config.apiKeys, technicalSignal', outcome)
    /\ merged' = Merge(aiSignal', technicalSignal')

\* analyzeStock from loadSignals to saveSignals: the loaded store gets the
\* symbol's new record and is written back
Persisted(s, loadOk, saveOk) ==
    /\ faults' = IF loadOk /\ saveOk THEN faults ELSE faults + 1
    /\ faults' <= MaxFaults
    /\ runs' = [runs EXCEPT ![s] = @ + 1]
    /\ log' = [log EXCEPT ![s] = Append(@, Entry(merged', runs'[s]))]
    /\ last' = [fetch |-> "bars", threw |-> FALSE, loadOk |-> loadOk, saveOk |-> saveOk]
    /\ LET allSignals == LoadSignals(loadOk)
       IN  signalsFile' =
             SaveSignals(Put(allSignals, s, Record(allSignals, s, merged', runs'[s])),
                         saveOk)

\* a run that gives up its result when the store cannot be read or written
RunStoresOrAborts(s, outcomes) ==
    /\ Total(runs, Symbols) < MaxRuns
    /\ Analysed(s, outcomes)
    /\ \E loadOk \in BOOLEAN, saveOk \in BOOLEAN :
          /\ Persisted(s, loadOk, saveOk)
          /\ result' = IF loadOk /\ saveOk
                       THEN ResultOf(s, indicators', technicalSignal', aiSignal', merged')
                       ELSE NullResult
    /\ pc' = "returned"
    /\ UNCHANGED <<config, signalVars>>

\* a failed fetch that leaves an empty signals file behind
RunFetchFailsAndClears(s) ==
    /\ symbol' = s
    /\ last' = [NoRun EXCEPT !.fetch = "failed"]
    /\ data' = NoData
    /\ indicators' = ErrorSnapshot
    /\ technicalSignal' = None
    /\ aiSignal' = NoAiSignal
    /\ merged' = NoMerged
    /\ result' = NullResult
    /\ pc' = "returned"
    /\ signalsFile' = EmptyStore
    /\ UNCHANGED <<runs, log, faults, config, signalVars>>

\* analyzeStock(s) when fetchStockData gives null: the answer was empty, or
\* the request threw and fetchStockData caught the error itself
RunFetchFails(s) ==
    /\ symbol' = s
    /\ last' = [NoRun EXCEPT !.fetch = "failed"]
    /\ data' = NoData
    /\ indicators' = ErrorSnapshot
    /\ technicalSignal' = None
    /\ aiSignal' = NoAiSignal
    /\ merged' = NoMerged
    /\ result' = NullResult
    /\ pc' = "returned"
    /\ UNCHANGED <<signalsFile, runs, log, faults, config, signalVars>>

\* analyzeStock(s) from the fetched bars to its return
RunStores(s, outcomes) ==
    /\ Total(runs, Symbols) < MaxRuns
    /\ Analysed(s, outcomes)
    /\ \E loadOk \in BOOLEAN, saveOk \in BOOLEAN : Persisted(s, loadOk, saveOk)
    /\ result' = ResultOf(s, indicators', technicalSignal', aiSignal', merged')
    /\ pc' = "returned"
    /\ UNCHANGED <<config, signalVars>>

\* Sequential runs started one after the other from the menu
InitStore ==
    /\ symbol \in Symbols
    /\ data = NoData
    /\ indicators = ErrorSnapshot
    /\ gpc = "done"
    /\ buySignals = << >>
    /\ sellSignals = << >>
    /\ buyConfidence = 0
    /\ sellConfidence = 0
    /\ technicalSignal = None
    /\ config = AiOff
    /\ pc = "idle"
    /\ aiSignal = NoAiSignal
    /\ merged = NoMerged
    /\ result = NullResult
    /\ StoreInit
    /\ BatchInit
    /\ SessionInit

AnalyzeFetchFails ==
    /\ \E s \in Symbols : RunFetchFails(s)
    /\ UNCHANGED <<batchVars, sessionVars>>

AnalyzeStores ==
    /\ \E s \in Symbols : RunStores(s, {Throws})
    /\ UNCHANGED <<batchVars, sessionVars>>

NextStore ==
    \/ AnalyzeFetchFails
    \/ AnalyzeStores

SpecStore == InitStore /\ [][NextStore]_vars

\* ------------------------------------------------ analyzeAllWatchlist

\* What loadWatchlist can give: the saved list, or [] when there is no file
\* or reading it fails
Watchlists ==
    { << >>,
      <<Sym("AAPL", "")>>, <<Sym("BTC", "-USD")>>,
      <<Sym("AAPL", ""), Sym("BTC", "-USD")>>,
      <<Sym("BTC", "-USD"), Sym("AAPL", "")>> }

\* The provider answers of the batch runs
BatchOutcomes == {Throws, Json("sell", 80, <<"AI sees momentum">>)}

\* the loop body after analyzeStock: pushes every result, null included
CollectEvery(s) ==
    /\ idx' = idx + 1
    /\ attempts' = Append(attempts,
                          [symbol |-> s,
                           succeeded |-> last'.fetch = "bars" /\ ~last'.threw])
    /\ results' = Append(results, result')
    /\ UNCHANGED <<watchlist, batch>>

\* the loop body after analyzeStock: if (result) results.push(result)
Collect(s) ==
    /\ idx' = idx + 1
    /\ attempts' = Append(attempts,
                          [symbol |-> s,
                           succeeded |-> last'.fetch = "bars" /\ ~last'.threw])
    /\ results' = IF IsNull(result') THEN results ELSE Append(results, result')
    /\ UNCHANGED <<watchlist, batch>>

InitBatch ==
    /\ symbol \in Symbols
    /\ data = NoData
    /\ indicators = ErrorSnapshot
    /\ gpc = "done"
    /\ buySignals = << >>
    /\ sellSignals = << >>
    /\ buyConfidence = 0
    /\ sellConfidence = 0
    /\ technicalSignal = None
    /\ config \in Configs
    /\ pc = "idle"
    /\ aiSignal = NoAiSignal
    /\ merged = NoMerged
    /\ result = NullResult
    /\ StoreInit
    /\ BatchInit
    /\ SessionInit

\* the command starts: the watchlist is loaded; an empty one ends the command
LoadWatchlist ==
    /\ batch = "menu"
    /\ \E w \in Watchlists :
          /\ watchlist' = w
          /\ batch' = IF w = << >> THEN "done" ELSE "loop"
    /\ idx' = 0
    /\ attempts' = << >>
    /\ results' = << >>
    /\ UNCHANGED <<symbol, data, indicators, technicalSignal, signalVars,
                   runVars, storeVars, sessionVars>>

\* one pass of the loop, by what happens inside analyzeStock
BatchFetchFails ==
    /\ batch = "loop"
    /\ idx < Len(watchlist)
    /\ RunFetchFails(watchlist[idx + 1])
    /\ Collect(watchlist[idx + 1])
    /\ UNCHANGED sessionVars

BatchThrows ==
    /\ batch = "loop"
    /\ idx < Len(watchlist)
    /\ RunThrows(watchlist[idx + 1])
    /\ Collect(watchlist[idx + 1])
    /\ UNCHANGED sessionVars

BatchStores ==
    /\ batch = "loop"
    /\ idx < Len(watchlist)
    /\ RunStores(watchlist[idx + 1], BatchOutcomes)
    /\ Collect(watchlist[idx + 1])
    /\ UNCHANGED sessionVars

\* the list is exhausted: the spinner succeeds and the summary is shown
FinishBatch ==
    /\ batch = "loop"
    /\ idx = Len(watchlist)
    /\ batch' = "done"
    /\ UNCHANGED <<symbol, data, indicators, technicalSignal, signalVars,
                   runVars, storeVars, watchlist, idx, attempts, results,
                   sessionVars>>

NextBatch ==
    \/ LoadWatchlist
    \/ BatchFetchFails
    \/ BatchThrows
    \/ BatchStores
    \/ FinishBatch

\* every await of the command settles
SpecBatch == InitBatch /\ [][NextBatch]_vars /\ WF_vars(NextBatch)

\* ------------------------------------------- the symbol and its asset class

\* cryptoSymbols of formatSymbol
CryptoSymbols == {"BTC", "ETH", "USDT", "XRP", "BNB", "ADA", "SOL", "DOT", "DOGE", "SHIB"}

\* symbol.replace(/-USD$|\.X$/, '')
BaseSymbol(s) == IF s.suffix \in {"-USD", ".X"} THEN s.base ELSE s.base \o s.suffix

\* formatSymbol: the symbol the price provider is asked for
FormatSymbol(s) ==
    IF BaseSymbol(s) \in CryptoSymbols
    THEN IF EndsWith(s, "-USD") THEN s ELSE Sym(BaseSymbol(s), "-USD")
    ELSE s

\* config.analysis.bollingerBands and config.crypto.analysis.bollingerBands;
\* stdDev counts tenths (2 and 2.5)
BollingerDefault == [period |-> 20, stdDev |-> 20]
BollingerCrypto == [period |-> 20, stdDev |-> 25]

\* getAnalysisParams(symbol, 'bollingerBands')
BollingerParams(s) == IF IsCryptocurrency(s) THEN BollingerCrypto ELSE BollingerDefault

\* What can be typed at the prompt or stand in the watchlist, and the
\* default symbol '' of generateSignal
TypedSymbols ==
    { Sym("", ""), Sym("AAPL", ""), Sym("MSFT", ""),
      Sym("BTC", ""), Sym("BTC", "-USD"), Sym("BTC", ".X"),
      Sym("ETH", ""), Sym("ETH", ".X"),
      Sym("FOO", "-USD"), Sym("FOO", ".X") }

\* 200 bars whose last RSI lies on either side of both threshold pairs
SymbolSeries ==
    { [d EXCEPT !.r.rsi = v] : d \in StoreSeries, v \in {22, 27, 73, 78} }

InitSymbol ==
    /\ symbol \in TypedSymbols
    /\ data \in SymbolSeries
    /\ indicators = ErrorSnapshot
    /\ gpc = "format"
    /\ buySignals = << >>
    /\ sellSignals = << >>
    /\ buyConfidence = 0
    /\ sellConfidence = 0
    /\ technicalSignal = None
    /\ config = AiOff
    /\ pc = "idle"
    /\ aiSignal = NoAiSignal
    /\ merged = NoMerged
    /\ result = NullResult
    /\ StoreInit
    /\ BatchInit
    /\ SessionInit

\* fetchStockData(symbol): the provider is asked for formatSymbol(symbol)
FormatForProvider ==
    /\ gpc = "format"
    /\ fetched' = FormatSymbol(symbol)
    /\ gpc' = "indicators"
    /\ UNCHANGED <<symbol, data, indicators, technicalSignal, buySignals,
                   sellSignals, buyConfidence, sellConfidence, params>>
    /\ UNCHANGED <<runVars, storeVars, batchVars, watchlistFile, analysed,
                   jobs, notifier, fired, sent, procs>>

\* calculateIndicators(stockData, symbol): rsiParams and bbParams are chosen
\* by the symbol analyzeStock was called with
CalculateWithParams ==
    /\ gpc = "indicators"
    /\ params' = [params EXCEPT !.rsi = RsiParams(symbol),
                                !.bollingerBands = BollingerParams(symbol)]
    /\ indicators' = CalculateIndicators(data, symbol)
    /\ gpc' = "score"
    /\ UNCHANGED <<symbol, data, technicalSignal, buySignals, sellSignals,
                   buyConfidence, sellConfidence, fetched>>
    /\ UNCHANGED <<runVars, storeVars, batchVars, watchlistFile, analysed,
                   jobs, notifier, fired, sent, procs>>

\* generateSignal(indicators, symbol): rsiParams is chosen again
ScoreWithParams ==
    /\ gpc = "score"
    /\ params' = [params EXCEPT !.score = RsiParams(symbol)]
    /\ technicalSignal' = GenerateSignal(indicators, symbol)
    /\ gpc' = "done"
    /\ UNCHANGED <<symbol, data, indicators, buySignals, sellSignals,
                   buyConfidence, sellConfidence, fetched>>
    /\ UNCHANGED <<runVars, storeVars, batchVars, watchlistFile, analysed,
                   jobs, notifier, fired, sent, procs>>

NextSymbol ==
    \/ FormatForProvider
    \/ CalculateWithParams
    \/ ScoreWithParams

SpecSymbol == InitSymbol /\ [][NextSymbol]_vars

\* ------------------------------------------------ the watchlist commands

\* analyses started by the watchlist commands in one behaviour
MaxMenuRuns == 3

\* loadWatchlist: the parsed file, or [] when it is missing or unreadable
LoadWatchlistFile(ok) == IF ok THEN watchlistFile ELSE << >>

\* saveWatchlist: the file is replaced, or the error is logged and swallowed
SaveWatchlistFile(list, ok) == IF ok THEN list ELSE watchlistFile

\* an includes that never finds the symbol
IncludesNever(list, s) == FALSE

\* watchlist.includes(formattedSymbol)
Includes(list, s) == \E i \in 1..Len(list) : list[i] = s

\* watchlist.filter(s => s !== symbol)
Without(list, s) == SelectSeq(list, LAMBDA x : x # s)

\* where the application stands once displayAnalysisResult(r) was called
AfterDisplay(r) == IF ~IsNull(r) /\ DisplayThrows(r) THEN "crashed" ELSE "menu"

InitWatchlist ==
    /\ symbol \in Symbols
    /\ data = NoData
    /\ indicators = ErrorSnapshot
    /\ gpc = "done"
    /\ buySignals = << >>
    /\ sellSignals = << >>
    /\ buyConfidence = 0
    /\ sellConfidence = 0
    /\ technicalSignal = None
    /\ config = AiOff
    /\ pc = "idle"
    /\ aiSignal = NoAiSignal
    /\ merged = NoMerged
    /\ result = NullResult
    /\ StoreInit
    /\ BatchInit
    /\ SessionInit

\* 'Add Stock to Watchlist' with a symbol the loaded list holds: nothing is
\* analysed or saved
AddListed ==
    /\ batch = "menu"
    /\ \E s \in Symbols, loadOk \in BOOLEAN :
          /\ Includes(LoadWatchlistFile(loadOk), s)
          /\ symbol' = s
    /\ UNCHANGED <<data, indicators, technicalSignal, signalVars, runVars,
                   storeVars, batchVars, sessionVars>>

\* 'Add Stock to Watchlist' when analyzeStock returns null: not added
AddFails ==
    /\ batch = "menu"
    /\ \E s \in Symbols, loadOk \in BOOLEAN :
          /\ ~Includes(LoadWatchlistFile(loadOk), s)
          /\ RunFetchFails(s) \/ RunThrows(s)
    /\ UNCHANGED <<batchVars, sessionVars>>

\* 'Add Stock to Watchlist' when the analysis succeeds: the symbol is pushed
\* onto the loaded list, the list is saved and the result is displayed
AddStores ==
    /\ batch = "menu"
    /\ Total(runs, Symbols) < MaxMenuRuns
    /\ \E s \in Symbols, loadOk \in BOOLEAN, saveOk \in BOOLEAN :
          /\ ~Includes(LoadWatchlistFile(loadOk), s)
          /\ RunStores(s, {Throws})
          /\ watchlistFile' = SaveWatchlistFile(Append(LoadWatchlistFile(loadOk), s), saveOk)
          /\ analysed' = analysed \cup {s}
    /\ batch' = AfterDisplay(result')
    /\ UNCHANGED <<watchlist, idx, attempts, results>>
    /\ UNCHANGED <<fetched, params, jobs, notifier, fired, sent, procs>>

\* 'Analyze a Stock' when analyzeStock returns null: the failure is printed
AnalyzeInputFails ==
    /\ batch = "menu"
    /\ \E s \in Symbols : RunFetchFails(s) \/ RunThrows(s)
    /\ UNCHANGED <<batchVars, sessionVars>>

\* 'Analyze a Stock' when the analysis succeeds: the result is displayed;
\* if the loaded list lacks the symbol the user is asked whether to add it
AnalyzeInputStores ==
    /\ batch = "menu"
    /\ Total(runs, Symbols) < MaxMenuRuns
    /\ \E s \in Symbols, loadOk \in BOOLEAN, saveOk \in BOOLEAN, addToWatchlist \in BOOLEAN :
          /\ RunStores(s, {Throws})
          /\ analysed' = analysed \cup {s}
          /\ batch' = AfterDisplay(result')
          /\ watchlistFile' =
                IF /\ batch' = "menu"
                   /\ ~Includes(LoadWatchlistFile(loadOk), s)
                   /\ addToWatchlist
                THEN SaveWatchlistFile(Append(LoadWatchlistFile(loadOk), s), saveOk)
                ELSE watchlistFile
    /\ UNCHANGED <<watchlist, idx, attempts, results>>
    /\ UNCHANGED <<fetched, params, jobs, notifier, fired, sent, procs>>

\* 'Remove Stock from Watchlist': one symbol of the loaded list is chosen,
\* filtered out and the rest is saved
RemoveStock ==
    /\ batch = "menu"
    /\ \E loadOk \in BOOLEAN, saveOk \in BOOLEAN :
          /\ LoadWatchlistFile(loadOk) # << >>
          /\ \E i \in 1..Len(LoadWatchlistFile(loadOk)) :
                watchlistFile' =
                  SaveWatchlistFile(Without(LoadWatchlistFile(loadOk),
                                            LoadWatchlistFile(loadOk)[i]), saveOk)
    /\ UNCHANGED <<symbol, data, indicators, technicalSignal, signalVars, runVars,
                   storeVars, batchVars>>
    /\ UNCHANGED <<fetched, params, analysed, jobs, notifier, fired, sent, procs>>

NextWatchlist ==
    \/ AddListed
    \/ AddFails
    \/ AddStores
    \/ AnalyzeInputFails
    \/ AnalyzeInputStores
    \/ RemoveStock

SpecWatchlist == InitWatchlist /\ [][NextWatchlist]_vars

\* ------------------------------------------------ the scheduled analysis

\* cron tasks registered in one behaviour
MaxJobs == 2
\* records the scheduled runs of one behaviour build
MaxScheduledRuns == 2

\* What fetchStockQuote gives: null when the request fails, or the quote
NoQuote == [present |-> FALSE, regularMarketPrice |-> 0]
Quotes == {NoQuote, [present |-> TRUE, regularMarketPrice |-> 101]}

\* quote ? quote.regularMarketPrice : stockData[stockData.length - 1].close
CurrentPrice(quote, d) == IF quote.present THEN quote.regularMarketPrice ELSE d.r.lastPrice

\* one call of analyzeStock by the callback and what it returned
Attempt(s, r, price) == [symbol |-> s, result |-> r, price |-> price]

\* a callback that notifies of every result, hold included
NotifyAnyResult(s, r, price) ==
    IF ~IsNull(r) /\ notifier
    THEN Append(sent, [stock |-> s, signal |-> r.signalResult.signal,
                       price |-> price, reasons |-> r.signalResult.reasons])
    ELSE sent

\* the body of the loop after analyzeStock: on a buy or sell result the
\* notifier, if there is one, is given symbol, signal, price and reasons
Notify(s, r, price) ==
    IF /\ ~IsNull(r)
       /\ (r.signalResult.signal = "buy" \/ r.signalResult.signal = "sell")
       /\ notifier
    THEN Append(sent, [stock |-> s, signal |-> r.signalResult.signal,
                       price |-> price, reasons |-> r.signalResult.reasons])
    ELSE sent

InitSchedule ==
    /\ symbol \in Symbols
    /\ data = NoData
    /\ indicators = ErrorSnapshot
    /\ gpc = "done"
    /\ buySignals = << >>
    /\ sellSignals = << >>
    /\ buyConfidence = 0
    /\ sellConfidence = 0
    /\ technicalSignal = None
    /\ config \in {AiOff, [enabled |-> TRUE, defaultProvider |-> "openai",
                                apiKeys |-> {"openai"}]}
    /\ pc = "idle"
    /\ aiSignal = NoAiSignal
    /\ merged = NoMerged
    /\ result = NullResult
    /\ StoreInit
    /\ BatchInit
    /\ fetched = [base |-> "", suffix |-> ""]
    /\ params = NoParams
    /\ watchlistFile \in Watchlists
    /\ analysed = {}
    /\ jobs = 0
    /\ notifier \in BOOLEAN
    /\ fired = 0
    /\ sent = << >>
    /\ procs = [p \in Runners |-> IdleRun]

\* 'Set Up Scheduled Alerts': setupScheduledAnalysis registers a cron task
ChooseSchedule ==
    /\ batch \in {"menu", "ticked"}
    /\ jobs < MaxJobs
    /\ jobs' = jobs + 1
    /\ UNCHANGED <<symbol, data, indicators, technicalSignal, signalVars, runVars,
                   storeVars, batchVars>>
    /\ UNCHANGED <<fetched, params, watchlistFile, analysed, notifier, fired,
                   sent, procs>>

\* the time of the cron expression comes: every registered task is due
Tick ==
    /\ batch \in {"menu", "ticked"}
    /\ jobs > 0
    /\ batch' = "tick"
    /\ fired' = 0
    /\ sent' = << >>
    /\ attempts' = << >>
    /\ watchlist' = << >>
    /\ idx' = 0
    /\ UNCHANGED <<symbol, data, indicators, technicalSignal, signalVars, runVars,
                   storeVars, results>>
    /\ UNCHANGED <<fetched, params, watchlistFile, analysed, jobs, notifier, procs>>

\* the callback of the next due task starts: it loads the watchlist and
\* sets up the notifier
StartCallback ==
    /\ batch = "tick"
    /\ fired < jobs
    /\ fired' = fired + 1
    /\ \E ok \in BOOLEAN : watchlist' = LoadWatchlistFile(ok)
    /\ idx' = 0
    /\ batch' = "callback"
    /\ UNCHANGED <<symbol, data, indicators, technicalSignal, signalVars, runVars,
                   storeVars, attempts, results>>
    /\ UNCHANGED <<fetched, params, watchlistFile, analysed, jobs, notifier,
                   sent, procs>>

\* one pass of the callback's loop when analyzeStock returns null
ScheduledFails ==
    /\ batch = "callback"
    /\ idx < Len(watchlist)
    /\ RunFetchFails(watchlist[idx + 1]) \/ RunThrows(watchlist[idx + 1])
    /\ attempts' = Append(attempts, Attempt(watchlist[idx + 1], result', 0))
    /\ sent' = Notify(watchlist[idx + 1], result', 0)
    /\ idx' = idx + 1
    /\ UNCHANGED <<watchlist, results, batch>>
    /\ UNCHANGED <<fetched, params, watchlistFile, analysed, jobs, notifier,
                   fired, procs>>

\* one pass of the callback's loop when analyzeStock returns a result
ScheduledStores ==
    /\ batch = "callback"
    /\ idx < Len(watchlist)
    /\ Total(runs, Symbols) < MaxScheduledRuns
    /\ RunStores(watchlist[idx + 1], BatchOutcomes)
    /\ faults' = faults    \* the signals file is read and written: SpecStore has its failures
    /\ \E quote \in Quotes :
          /\ attempts' = Append(attempts, Attempt(watchlist[idx + 1], result',
                                                  CurrentPrice(quote, data')))
          /\ sent' = Notify(watchlist[idx + 1], result', CurrentPrice(quote, data'))
    /\ idx' = idx + 1
    /\ UNCHANGED <<watchlist, results, batch>>
    /\ UNCHANGED <<fetched, params, watchlistFile, analysed, jobs, notifier,
                   fired, procs>>

\* the list is exhausted: 'Scheduled analysis complete'
EndCallback ==
    /\ batch = "callback"
    /\ idx = Len(watchlist)
    /\ batch' = IF fired < jobs THEN "tick" ELSE "ticked"
    /\ UNCHANGED <<symbol, data, indicators, technicalSignal, signalVars, runVars,
                   storeVars, watchlist, idx, attempts, results>>
    /\ UNCHANGED sessionVars

NextSchedule ==
    \/ ChooseSchedule
    \/ Tick
    \/ StartCallback
    \/ ScheduledFails
    \/ ScheduledStores
    \/ EndCallback

SpecSchedule == InitSchedule /\ [][NextSchedule]_vars

\* ------------------------------------------------ two runs at a time

\* records the interleaved runs of one behaviour build
MaxInterleavedRuns == 4

\* the runner that is not p
Other(p) == CHOOSE q \in Runners : q # p

\* a run is between its call and its return
Active(p) == procs[p].pc \in {"load", "save"}

\* the fused signal analyzeStock(s) has in memory when it reaches loadSignals
FusedOf(s) ==
    LET d == CHOOSE x \in StoreSeries : TRUE
        technical == GenerateSignal(CalculateIndicators(d, s), s)
    IN  Merge(GetEnhancedSignal(config.enabled, config.defaultProvider,
                                config.apiKeys, technical, Throws),
              technical)

InitInterleave ==
    /\ symbol \in Symbols
    /\ data = NoData
    /\ indicators = ErrorSnapshot
    /\ gpc = "done"
    /\ buySignals = << >>
    /\ sellSignals = << >>
    /\ buyConfidence = 0
    /\ sellConfidence = 0
    /\ technicalSignal = None
    /\ config = AiOff
    /\ pc = "idle"
    /\ aiSignal = NoAiSignal
    /\ merged = NoMerged
    /\ result = NullResult
    /\ StoreInit
    /\ BatchInit
    /\ SessionInit

\* the cron callback or the menu calls analyzeStock(s) while the other run,
\* if there is one, works on another symbol; the bars arrive and the run
\* goes on to await loadSignals()
RunnerStarts(p) ==
    /\ ~Active(p)
    /\ \E s \in Symbols :
          /\ Active(Other(p)) => s # procs[Other(p)].symbol
          /\ procs' = [procs EXCEPT ![p] = [pc |-> "load", symbol |-> s,
                                            allSignals |-> EmptyStore]]
    /\ UNCHANGED <<symbol, data, indicators, technicalSignal, signalVars, runVars,
                   storeVars, batchVars>>
    /\ UNCHANGED <<fetched, params, watchlistFile, analysed, jobs, notifier,
                   fired, sent>>

\* fetchStockData gives null: the run returns null before it reaches the store
RunnerFetchFails(p) ==
    /\ ~Active(p)
    /\ \E s \in Symbols :
          /\ Active(Other(p)) => s # procs[Other(p)].symbol
          /\ procs' = [procs EXCEPT ![p] = [pc |-> "done", symbol |-> s,
                                            allSignals |-> EmptyStore]]
    /\ UNCHANGED <<symbol, data, indicators, technicalSignal, signalVars, runVars,
                   storeVars, batchVars>>
    /\ UNCHANGED <<fetched, params, watchlistFile, analysed, jobs, notifier,
                   fired, sent>>

\* await loadSignals() settles: the run sets its symbol's record in the
\* object it loaded and goes on to await saveSignals(allSignals)
RunnerLoads(p) ==
    /\ procs[p].pc = "load"
    /\ Total(runs, Symbols) < MaxInterleavedRuns
    /\ \E loadOk \in BOOLEAN :
          /\ faults' = IF loadOk THEN faults ELSE faults + 1
          /\ faults' <= MaxFaults
          /\ runs' = [runs EXCEPT ![procs[p].symbol] = @ + 1]
          /\ log' = [log EXCEPT ![procs[p].symbol] =
                        Append(@, Entry(FusedOf(procs[p].symbol), runs'[procs[p].symbol]))]
          /\ procs' = [procs EXCEPT ![p].pc = "save",
                                    ![p].allSignals =
                                       Put(LoadSignals(loadOk), procs[p].symbol,
                                           Record(LoadSignals(loadOk), procs[p].symbol,
                                                  FusedOf(procs[p].symbol),
                                                  runs'[procs[p].symbol]))]
    /\ UNCHANGED <<symbol, data, indicators, technicalSignal, signalVars, runVars,
                   signalsFile, last, batchVars>>
    /\ UNCHANGED <<fetched, params, watchlistFile, analysed, jobs, notifier,
                   fired, sent>>

\* await saveSignals(allSignals) settles: the file is replaced by the
\* run's object, and the run returns
RunnerSaves(p) ==
    /\ procs[p].pc = "save"
    /\ \E saveOk \in BOOLEAN :
          /\ faults' = IF saveOk THEN faults ELSE faults + 1
          /\ faults' <= MaxFaults
          /\ signalsFile' = SaveSignals(procs[p].allSignals, saveOk)
    /\ procs' = [procs EXCEPT ![p].pc = "done"]
    /\ UNCHANGED <<symbol, data, indicators, technicalSignal, signalVars, runVars,
                   runs, log, last, batchVars>>
    /\ UNCHANGED <<fetched, params, watchlistFile, analysed, jobs, notifier,
                   fired, sent>>

NextInterleave ==
    \/ \E p \in Runners : RunnerStarts(p)
    \/ \E p \in Runners : RunnerFetchFails(p)
    \/ \E p \in Runners : RunnerLoads(p)
    \/ \E p \in Runners : RunnerSaves(p)

SpecInterleave == InitInterleave /\ [][NextInterleave]_vars

\* ------------------------------------------------ properties of the scoring

Scored == gpc = "done" /\ ~HasError(indicators)

HighVolume(ind) ==
    /\ IsNumber(ind.currentVolume) /\ IsNumber(ind.avgVolume20)
    /\ ind.avgVolume20 > 0
    /\ 10 * ind.currentVolume > 15 * ind.avgVolume20

LowVolume(ind) ==
    /\ IsNumber(ind.currentVolume) /\ IsNumber(ind.avgVolume20)
    /\ ind.avgVolume20 > 0
    /\ 10 * ind.currentVolume < 7 * ind.avgVolume20

\* C1: the confidence generateSignal returns for a snapshot without an
\* error lies in 0..100, whatever the signal.
C1_ConfidenceInRange ==
    Scored => technicalSignal.confidence \in 0..100

\* C4: with no data or fewer than 50 bars calculateIndicators returns an
\* error result, and generateSignal on it returns hold, confidence 0 and
\* the single reason 'Insufficient data'.
C4_InsufficientData ==
    (gpc # "calc" /\ (~data.present \/ data.len < 50)) =>
        /\ HasError(indicators)
        /\ gpc = "done" =>
            /\ technicalSignal.signal = "hold"
            /\ technicalSignal.confidence = 0
            /\ technicalSignal.reasons = <<"Insufficient data">>

C4_Witness ==
    /\ gpc = "done"
    /\ data.present /\ data.len = 49
    /\ technicalSignal.signal = "hold"

\* The snapshot of the scenario: an equity symbol, no volume reading.
Scenario ==
    /\ ~IsCryptocurrency(symbol)
    /\ ~HasError(indicators)
    /\ indicators.lastPrice = 100
    /\ indicators.sma.sma50 = 98
    /\ indicators.sma.sma200 = 95
    /\ indicators.rsi = 22
    /\ indicators.macd = [MACD |-> 10, signal |-> 5, histogram |-> 5]
    /\ indicators.bollingerBands = [lower |-> 99, middle |-> 102, upper |-> 105]
    /\ indicators.supportLevel = 97
    /\ indicators.resistanceLevel = 110
    /\ indicators.currentVolume = Undefined

\* C6 as stated: on the scenario snapshot the SMA50, RSI, MACD and Golden
\* Cross buy rules all match, so the signal is buy with confidence >= 80.
C6_ScenarioAsStated ==
    (gpc = "done" /\ Scenario) =>
        /\ technicalSignal.signal = "buy"
        /\ technicalSignal.confidence >= 80

\* C6 amended: on the scenario snapshot exactly the RSI, MACD and
\* near-support buy rules match, so the signal is buy with confidence 55.
C6_ScenarioScore ==
    (gpc = "done" /\ Scenario) =>
        /\ technicalSignal.signal = "buy"
        /\ technicalSignal.confidence = 55
        /\ technicalSignal.reasons =
               <<"RSI indicates oversold condition",
                 "MACD crossed above signal line",
                 "Price near support level">>

C6_Witness == gpc = "done" /\ Scenario /\ technicalSignal.confidence = 55

\* C7: the volume adjustment acts on the scores of all six rule pairs: the
\* final scores are the six-rule scores with the side that leads among
\* them boosted or reduced.
C7_VolumeAfterAllRules ==
    Scored =>
        LET all == VolumeAdjust(LateRules(FirstRules(indicators, symbol), indicators),
                                indicators)
        IN  /\ buyConfidence = all.buyConfidence
            /\ sellConfidence = all.sellConfidence

\* C8: the volume adjustment changes the scores only by +10 to the leader
\* (+5 to both when tied and nonzero) on high volume and by -5 to the
\* leader (-2 to both when tied and nonzero) on low volume, never below 0,
\* each change with one reason appended to the changed side; in every
\* other case the scores and the reasons stay as they are.
C8_Step ==
    LET b == buyConfidence
        s == sellConfidence
        high == HighVolume(indicators)
        low == LowVolume(indicators)
        grewBy1(old, new) == Len(new) = Len(old) + 1 /\ SubSeq(new, 1, Len(old)) = old
    IN  /\ (high /\ b > s) =>
              /\ buyConfidence' = b + 10 /\ sellConfidence' = s
              /\ grewBy1(buySignals, buySignals') /\ sellSignals' = sellSignals
        /\ (high /\ s > b) =>
              /\ sellConfidence' = s + 10 /\ buyConfidence' = b
              /\ grewBy1(sellSignals, sellSignals') /\ buySignals' = buySignals
        /\ (high /\ b = s /\ b > 0) =>
              /\ buyConfidence' = b + 5 /\ sellConfidence' = s + 5
              /\ grewBy1(buySignals, buySignals') /\ grewBy1(sellSignals, sellSignals')
        /\ (low /\ b > s) =>
              /\ buyConfidence' = Max(0, b - 5) /\ sellConfidence' = s
              /\ grewBy1(buySignals, buySignals') /\ sellSignals' = sellSignals
        /\ (low /\ s > b) =>
              /\ sellConfidence' = Max(0, s - 5) /\ buyConfidence' = b
              /\ grewBy1(sellSignals, sellSignals') /\ buySignals' = buySignals
        /\ (low /\ b = s /\ b > 0) =>
              /\ buyConfidence' = Max(0, b - 2) /\ sellConfidence' = Max(0, s - 2)
              /\ grewBy1(buySignals, buySignals') /\ grewBy1(sellSignals, sellSignals')
        /\ ((~high /\ ~low) \/ (b = 0 /\ s = 0)) =>
              UNCHANGED <<buyConfidence, sellConfidence, buySignals, sellSignals>>
        /\ buyConfidence' >= 0 /\ sellConfidence' >= 0

C8_VolumeAdjustment == [][(gpc = "volume" /\ gpc' = "late") => C8_Step]_vars

\* the spec's volume scenario: 40 against 0 on doubled volume becomes 50
C8_Witness ==
    /\ gpc = "late"
    /\ indicators.currentVolume = 2 * indicators.avgVolume20
    /\ buyConfidence = 50 /\ sellConfidence = 0
    /\ buySignals[Len(buySignals)] = "High volume supports bullish signal"

\* C9: buy (confidence the buy score, the buy-side reasons) iff the buy
\* score is above the sell score and at least 30; sell symmetrically;
\* otherwise, ties included, hold with confidence 100 - max of the scores
\* and the single default reason.
C9_Decision ==
    Scored =>
        LET b == buyConfidence
            s == sellConfidence
            t == technicalSignal
        IN  /\ t.signal = "buy" <=> (b > s /\ b >= 30)
            /\ t.signal = "sell" <=> (s > b /\ s >= 30)
            /\ t.signal = "buy" => (t.confidence = b /\ t.reasons = buySignals)
            /\ t.signal = "sell" => (t.confidence = s /\ t.reasons = sellSignals)
            /\ t.signal \notin {"buy", "sell"} =>
                  /\ t.signal = "hold"
                  /\ t.confidence = 100 - Max(b, s)
                  /\ t.reasons = <<"No strong buy or sell signals detected">>

\* equal scores at or above the threshold fall to hold
C9_Witness ==
    /\ Scored
    /\ buyConfidence = sellConfidence /\ buyConfidence >= 30
    /\ technicalSignal.signal = "hold"

Weight(hit, w) == IF hit THEN w ELSE 0

\* the table's conditions, read off the snapshot
TableBuy(ind, sym) ==
    << Weight(ind.lastPrice > ind.sma.sma50 /\ 100 * ind.lastPrice < 102 * ind.sma.sma50, 15),
       Weight(ind.rsi < (IF IsCryptocurrency(sym) THEN 25 ELSE 30), 20),
       Weight(ind.macd.MACD > ind.macd.signal /\ ind.macd.histogram > 0, 20),
       Weight(ind.lastPrice >= ind.supportLevel
              /\ 100 * ind.lastPrice < 105 * ind.supportLevel, 15),
       Weight(ind.lastPrice < ind.bollingerBands.lower, 15),
       Weight(ind.sma.sma200 # Undefined /\ ind.sma.sma50 > ind.sma.sma200
              /\ 100 * ind.sma.sma50 < 102 * ind.sma.sma200, 25) >>

TableSell(ind, sym) ==
    << Weight(ind.lastPrice < ind.sma.sma50 /\ 100 * ind.lastPrice > 98 * ind.sma.sma50, 15),
       Weight(ind.rsi > (IF IsCryptocurrency(sym) THEN 75 ELSE 70), 20),
       Weight(ind.macd.MACD < ind.macd.signal /\ ind.macd.histogram < 0, 20),
       Weight(ind.lastPrice <= ind.resistanceLevel
              /\ 100 * ind.lastPrice > 95 * ind.resistanceLevel, 15),
       Weight(ind.lastPrice > ind.bollingerBands.upper, 15),
       Weight(ind.sma.sma200 # Undefined /\ ind.sma.sma50 < ind.sma.sma200
              /\ 100 * ind.sma.sma50 > 98 * ind.sma.sma200, 25) >>

Sum6(w) == w[1] + w[2] + w[3] + w[4] + w[5] + w[6]
Hits6(w) == Cardinality({i \in 1..6 : w[i] > 0})

NoVolumeAdjustment ==
    \/ (~HighVolume(indicators) /\ ~LowVolume(indicators))
    \/ LET g == FirstRules(indicators, symbol)
       IN  g.buyConfidence = 0 /\ g.sellConfidence = 0

\* C10: when no volume adjustment applies the buy score is the sum of the
\* weights of the matched buy conditions of the table and the sell score
\* that of the matched sell conditions, one reason per matched condition.
C10_TableScores ==
    (Scored /\ NoVolumeAdjustment) =>
        /\ buyConfidence = Sum6(TableBuy(indicators, symbol))
        /\ sellConfidence = Sum6(TableSell(indicators, symbol))
        /\ Len(buySignals) = Hits6(TableBuy(indicators, symbol))
        /\ Len(sellSignals) = Hits6(TableSell(indicators, symbol))

\* all six buy conditions matched at once
C10_Witness ==
    /\ Scored /\ NoVolumeAdjustment
    /\ buyConfidence = 110 /\ Len(buySignals) = 6
    /\ sellConfidence = 0


\* ------------------------------------------------ properties of the analysis run

Returned == pc = "returned" /\ ~IsNull(result)
Accepted == aiSignal.source \in Providers

\* C2: the signal of the final (fused) result of every analysis run is exactly
\* one of buy, sell or hold, for every provider response the adapter accepts.
C2_FusedSignalIsBuySellHold ==
    (Returned /\ Accepted) =>
        result.signalResult.signal \in {"buy", "sell", "hold"}

\* C3: the confidence of the final (fused) result of every analysis run is in
\* 0..100, whichever fusion branch produced it and whatever confidence the
\* accepted AI opinion carries.
C3_FusedConfidenceInRange ==
    Returned => result.signalResult.confidence \in 0..100

\* C5: a run whose fetched series has fewer than 50 bars ends in hold with
\* confidence 0 and exactly one reason, the insufficient-data reason, whether
\* AI enhancement is enabled or not and whatever the provider answers.
C5_ShortSeriesEndsInHold ==
    (Returned /\ data.len < MinBars) =>
        /\ result.signalResult.signal = "hold"
        /\ result.signalResult.confidence = 0
        /\ result.signalResult.reasons = InsufficientSignal.reasons


\* ------------------------------------------------ properties of the fusion

Merging == pc = "save" \/ (pc = "returned" /\ ~IsNull(result))
SetOf(list) == { list[i] : i \in DOMAIN list }
Tail1(list) == SubSeq(list, 2, Len(list))

\* C11: when the AI and the technical opinion carry the same signal, the fused
\* signal is that signal, the fused confidence is the average of the two
\* rounded to a whole number (halves up), the source is 'ai+technical', and the
\* reasons are the agreement note followed by the union of both reason lists
\* with every string once.
C11_AgreementCase ==
    (Merging /\ aiSignal.signal = technicalSignal.signal) =>
        LET sum == aiSignal.confidence + technicalSignal.confidence
            rest == Tail1(merged.reasons)
        IN  /\ merged.signal = technicalSignal.signal
            /\ 2 * merged.confidence \in {sum, sum + 1}
            /\ merged.source = "ai+technical"
            /\ Len(merged.reasons) >= 1
            /\ merged.reasons[1] = "Both AI and Technical agree"
            /\ SetOf(rest) = SetOf(aiSignal.reasons) \cup SetOf(technicalSignal.reasons)
            /\ Len(rest) = Cardinality(SetOf(rest))

\* an accepted AI opinion agrees, the sum of the confidences is odd and one
\* reason is given by both
C11_Witness ==
    /\ Merging /\ Accepted
    /\ aiSignal.signal = technicalSignal.signal
    /\ (aiSignal.confidence + technicalSignal.confidence) % 2 = 1
    /\ SetOf(aiSignal.reasons) \cap SetOf(technicalSignal.reasons) # {}

\* C12: when the two opinions carry different signals and different
\* confidences, the fused signal and confidence are those of the opinion with
\* the higher confidence, the source is 'ai' or 'technical' accordingly, and
\* the reasons are one override note followed by the winner's reasons only.
C12_OverrideCase ==
    (/\ Merging
     /\ aiSignal.signal # technicalSignal.signal
     /\ aiSignal.confidence # technicalSignal.confidence) =>
        LET aiWins == aiSignal.confidence > technicalSignal.confidence
            winner == IF aiWins THEN aiSignal ELSE technicalSignal
        IN  /\ merged.signal = winner.signal
            /\ merged.confidence = winner.confidence
            /\ merged.source = (IF aiWins THEN "ai" ELSE "technical")
            /\ merged.reasons =
                 <<IF aiWins THEN "AI overrides Technical"
                             ELSE "Technical overrides AI">> \o winner.reasons

\* the AI opinion wins over a technical opinion that has reasons of its own
C12_Witness ==
    /\ Merging /\ Accepted
    /\ aiSignal.signal # technicalSignal.signal
    /\ aiSignal.confidence > technicalSignal.confidence
    /\ aiSignal.reasons # << >>
    /\ technicalSignal.signal = "sell"

\* C13: when the two opinions carry different signals and equal confidences,
\* the fused signal is hold, the fused confidence is the shared value, the
\* source is 'conflict' and the reasons are exactly one conflict note.
C13_ConflictCase ==
    (/\ Merging
     /\ aiSignal.signal # technicalSignal.signal
     /\ aiSignal.confidence = technicalSignal.confidence) =>
        /\ merged.signal = "hold"
        /\ merged.confidence = technicalSignal.confidence
        /\ merged.source = "conflict"
        /\ merged.reasons =
             <<"AI and Technical disagree with similar confidence; defaulting to hold.">>

\* an AI sell against a technical buy of the same confidence
C13_Witness ==
    /\ Merging /\ Accepted
    /\ aiSignal.signal = "sell" /\ technicalSignal.signal = "buy"
    /\ aiSignal.confidence = technicalSignal.confidence

C15_DisabledReturnsTechnical ==
    ((pc = "enhance" \/ Merging) /\ ~config.enabled) =>
        \A outcome \in HandlerOutcomes :
            LET r == GetEnhancedSignal(config.enabled, config.defaultProvider,
                                       config.apiKeys, technicalSignal, outcome)
            IN  /\ r.signal = technicalSignal.signal
                /\ r.confidence = technicalSignal.confidence
                /\ r.reasons = technicalSignal.reasons
                /\ r.source = "technical"
                /\ pc # "enhance" => aiSignal = r

\* a disabled run came back with a scored technical opinion
C15_Witness ==
    /\ Returned /\ ~config.enabled
    /\ technicalSignal.signal = "sell"
    /\ aiSignal.source = "technical"

\* the ways in which no valid AI opinion is obtained
NoValidOpinion(outcome) ==
    \/ config.defaultProvider \notin Providers
    \/ config.defaultProvider \notin config.apiKeys
    \/ outcome.throws
    \/ outcome.signal = ""
    \/ ~outcome.signalIsString
    \/ ~outcome.confidenceIsNumber
    \/ ~outcome.reasonsIsArray

\* C16: with AI enhancement enabled, every failure to obtain a valid AI
\* opinion (provider error, invalid response, unsupported provider, missing
\* credentials) makes getEnhancedSignal return the technical opinion tagged
\* source 'technical' with an error annotation.
C16_FailureFallsBack ==
    (pc = "enhance" /\ config.enabled) =>
        \A outcome \in HandlerOutcomes :
            NoValidOpinion(outcome) =>
                LET r == GetEnhancedSignal(config.enabled, config.defaultProvider,
                                           config.apiKeys, technicalSignal, outcome)
                IN  /\ r.signal = technicalSignal.signal
                    /\ r.confidence = technicalSignal.confidence
                    /\ r.reasons = technicalSignal.reasons
                    /\ r.source = "technical"
                    /\ r.error # ""


\* ------------------------------------------------ properties of the store

\* C17: after any sequence of completed runs, the stored history of each
\* symbol holds at most 10 entries, and these are the fused signals of the
\* symbol's most recent runs in run order.
C17_HistoryIsLastTen ==
    \A s \in Symbols :
        /\ Len(History(signalsFile, s)) <= HistoryCap
        /\ History(signalsFile, s) = LastN(log[s], HistoryCap)

\* C18: when the market-data fetch fails, analyzeStock returns null and leaves
\* the stored signals of every symbol as they were.
C18_FetchFailureLeavesStore ==
    [][last'.fetch = "failed" => (IsNull(result') /\ signalsFile' = signalsFile)]_vars

\* a fetch failed while the store held the records of both symbols
C18_Witness ==
    /\ last.fetch = "failed"
    /\ IsNull(result)
    /\ DOMAIN signalsFile = Symbols

\* C19: when reading or writing the signals store fails during a run,
\* analyzeStock still returns the complete result computed in memory: the
\* fused signal, confidence and reasons, not null.
C19_StoreFailureKeepsResult ==
    (last.fetch = "bars" /\ ~last.threw /\ (~last.loadOk \/ ~last.saveOk)) =>
        /\ ~IsNull(result)
        /\ result.symbol = symbol
        /\ result.signalResult.signal = merged.signal
        /\ result.signalResult.confidence = merged.confidence
        /\ result.signalResult.reasons = merged.reasons
        /\ merged = Merge(aiSignal, technicalSignal)
        /\ merged.reasons # << >>

\* a run whose read failed and a run whose write failed both returned a buy
C19_Witness ==
    /\ last.fetch = "bars" /\ ~last.loadOk /\ ~last.saveOk
    /\ ~IsNull(result)
    /\ merged.signal = "buy"


\* ------------------------------------------------ properties of the batch

ResultSymbols ==
    [i \in 1..Len(results) |->
        IF IsNull(results[i]) THEN Sym("", "") ELSE results[i].symbol]
SucceededSymbols ==
    LET ok == SelectSeq(attempts, LAMBDA a : a.succeeded)
    IN  [i \in 1..Len(ok) |-> ok[i].symbol]

BatchInOrder ==
    /\ idx <= Len(watchlist)
    /\ Len(attempts) = idx
    /\ \A i \in 1..idx : attempts[i].symbol = watchlist[i]
    /\ ResultSymbols = SucceededSymbols
    /\ batch = "done" => idx = Len(watchlist)

\* C20: in a batch analysis every symbol of the watchlist is attempted exactly
\* once in list order whatever happens to the others, the loop always
\* terminates, and the accumulated results are exactly the symbols whose
\* analysis succeeded, in list order.
C20_BatchAttemptsAllAndEnds == []BatchInOrder /\ <>(batch = "done")

\* a batch of two ended after a first symbol that failed and a second that
\* succeeded
C20_Witness ==
    /\ batch = "done"
    /\ Len(watchlist) = 2
    /\ ~attempts[1].succeeded /\ attempts[2].succeeded
    /\ Len(results) = 1


\* ------------------------------------------------ further properties of a run

\* C23: every technical opinion returned by generateSignal and every fused
\* signal produced by an analysis run has a non-empty reasons list.
C23_ReasonsNeverEmpty ==
    /\ (pc = "enhance" \/ Merging) => technicalSignal.reasons # << >>
    /\ Merging => merged.reasons # << >>
    /\ Returned => result.signalResult.reasons # << >>

\* a run returned an AI override whose AI opinion gave no reasons of its own
C23_Witness ==
    /\ Returned /\ Accepted
    /\ aiSignal.reasons = << >>
    /\ result.signalResult.source = "ai"
    /\ technicalSignal.signal = "hold"

\* C28: whenever the adapter hands back the technical opinion (AI disabled, or
\* fallback after a failure), the final signal of the run has the technical
\* opinion's signal and confidence and is tagged source 'technical'.
C28_TechnicalOnlyIsTaggedTechnical ==
    (Returned /\ aiSignal.source = "technical") =>
        /\ result.signalResult.signal = technicalSignal.signal
        /\ result.signalResult.confidence = technicalSignal.confidence
        /\ result.signalResult.source = "technical"

\* C26: a sequential run for symbol s changes only s's record in the signals
\* store; the records of all other symbols are the same after the run as
\* before it, also when the read of the store fails during the run.
C26_RunChangesOwnRecordOnly ==
    [][\A t \in Symbols \ {symbol'} :
          /\ (t \in DOMAIN signalsFile) = (t \in DOMAIN signalsFile')
          /\ t \in DOMAIN signalsFile => signalsFile'[t] = signalsFile[t]]_vars

\* C24: the 'Analyze a Stock' action displays every non-null result and
\* returns to the menu; the application never ends in an unhandled fault
C24_DisplayNeverCrashes == pc # "crashed"

\* ------------------------------------ properties of the parameter selection

ClassScored == gpc = "done"

\* C22: a symbol of the allowlist or ending with '-USD' or '.X' is scored
\* with RSI thresholds 25/75 and Bollinger stdDev 2.5, every other symbol
\* with 30/70 and stdDev 2, and the class used for the indicators is the
\* class used for the scoring
C22_ParamsFollowClass ==
    ClassScored =>
        LET crypto == \/ symbol \in SupportedSymbols
                      \/ symbol.suffix = "-USD"
                      \/ symbol.suffix = ".X"
        IN  /\ params.score.oversold = (IF crypto THEN 25 ELSE 30)
            /\ params.score.overbought = (IF crypto THEN 75 ELSE 70)
            /\ params.bollingerBands.stdDev = (IF crypto THEN 25 ELSE 20)
            /\ params.rsi = params.score
            /\ data.r.rsi = 27 => (technicalSignal.signal = "buy" <=> ~crypto)
            /\ data.r.rsi = 73 => (technicalSignal.signal = "sell" => ~crypto)

C22_Witness ==
    /\ ClassScored
    /\ symbol = Sym("FOO", ".X")
    /\ data.r.rsi = 27
    /\ technicalSignal.signal = "hold"
    /\ params.bollingerBands.stdDev = 25

\* C29: a symbol whose bars are fetched as a supported '<coin>-USD' pair is
\* classified as crypto: crypto RSI thresholds and Bollinger width
C29_FetchedCryptoIsCrypto ==
    (ClassScored /\ fetched \in SupportedSymbols) =>
        /\ params.rsi = RsiCrypto
        /\ params.score = RsiCrypto
        /\ params.bollingerBands = BollingerCrypto

\* ------------------------------------------ properties of the watchlist

\* C30: after any sequence of add, analyze-then-add and remove the saved
\* watchlist holds no symbol twice, and only symbols an analysis succeeded
\* for; a symbol whose analysis returned null is not added by that action
C30_WatchlistClean ==
    /\ \A i, j \in 1..Len(watchlistFile) :
          watchlistFile[i] = watchlistFile[j] => i = j
    /\ \A i \in 1..Len(watchlistFile) : watchlistFile[i] \in analysed

C30_NullResultNotAdded ==
    [][IsNull(result') =>
         \A s \in Symbols :
            Includes(watchlistFile', s) => Includes(watchlistFile, s)]_vars

C30_WatchlistCleanAlways == []C30_WatchlistClean /\ C30_NullResultNotAdded

C30_Witness ==
    /\ Len(watchlistFile) = 2
    /\ IsNull(result)
    /\ last.fetch = "failed"
    /\ Total(runs, Symbols) = MaxMenuRuns

\* -------------------------------------- properties of the scheduled analysis

RECURSIVE Due(_)
Due(tried) ==
    IF tried = << >> THEN << >>
    ELSE LET a == Head(tried)
         IN  (IF /\ ~IsNull(a.result)
                 /\ a.result.signalResult.signal \in {"buy", "sell"}
                 /\ notifier
              THEN << [stock |-> a.symbol, signal |-> a.result.signalResult.signal,
                       price |-> a.price, reasons |-> a.result.signalResult.reasons] >>
              ELSE << >>) \o Due(Tail(tried))

CountOf(list, s, field) == Cardinality({i \in 1..Len(list) : list[i][field] = s})

C27_OncePerTick ==
    \A s \in Symbols :
       /\ CountOf(attempts, s, "symbol") <= 1
       /\ CountOf(sent, s, "stock") <= 1

\* ------------------------------------------ properties of interleaved runs

\* C25: when a cron run and a menu run for different symbols interleave,
\* the signals store afterwards holds the record and the history entry of
\* both: with every read and write succeeding and no run between its read
\* and its return, each symbol's stored history is the last ten of the
\* entries its runs have built
C25_NoLostUpdate ==
    (faults = 0 /\ \A p \in Runners : ~Active(p)) =>
        \A s \in Symbols :
           History(signalsFile, s) = LastN(log[s], HistoryCap)

====
